---- MODULE Spec2Model ----
(***************************************************************************)
(* Gallery admin relay (gallery-admin-worker/worker.js): origin check,     *)
(* rate-limited password login, HS256 bearer tokens, and the proxy to the  *)
(* remote content store.                                                   *)
(*                                                                         *)
(* Time is the value now() returns (epoch seconds, taken from 0).  The     *)
(* clock only takes the instants of interest around 0, the rate-limit      *)
(* window and the token lifetime (Instants).                               *)
(*                                                                         *)
(* HMAC-SHA256 and PBKDF2 are modelled as ideal (collision-free) functions *)
(* of their inputs: a tag equals another tag only if key and message are   *)
(* the same.  The rate-limit store is a get/put-with-expiry key-value      *)
(* store whose reads see the latest write.                                 *)
(***************************************************************************)
EXTENDS Integers, Sequences, FiniteSets, TLC

VARIABLES
    clock,      \* Math.floor(Date.now() / 1000)
    kv,         \* env.RATE_LIMIT: key -> [val, exp] (exp = 0: no entry)
    kvUp,       \* whether env.RATE_LIMIT get/put calls succeed
    rlBound,    \* whether env.RATE_LIMIT is configured at all
    win,        \* history: per key, the current counter's first write, passes, denials
    held,       \* the token the admin client holds (sessionStorage admin_jwt)
    req,        \* requests in flight: slot -> request, locals, response
    kept,       \* a copy of a token the relay handed out, held by anybody
    seen,       \* per admin client and file, the version it last saw (null: none)
    files,      \* the remote content store: path -> content, or Absent
    ghUp,       \* how the remote store answers: "ok", "5xx", "html", "neterr"
    galleryEntries, \* main.js: the entries the admin page is editing
    listing,    \* the listing text last produced or found, or NoText
    parsed,     \* what parseSimpleYaml made of listing, or NotParsed
    ui,         \* main.js: the admin page's views, stored token, open requests
    theme       \* main.js: system colour scheme, stored override, theme shown

vars == <<clock, kv, kvUp, rlBound, win, held, kept, seen, req, files, ghUp,
          galleryEntries, listing, parsed, ui, theme>>

relayVars == <<kv, kvUp, rlBound, win>>
storeVars == <<files, ghUp>>
codecVars == <<galleryEntries, listing, parsed>>
pageVars == <<codecVars, ui, theme>>
clientVars == <<held, kept, seen, pageVars>>

---------------------------------------------------------------------------
(* Program constants *)

RATE_LIMIT_MAX == 5
RATE_LIMIT_WINDOW == 3600
JWT_EXPIRY == 2 * 60 * 60

(* Bounds *)

\* how many consecutive seconds are modelled after each instant of interest
MaxSlack == 1

Instants ==
    {b + s : b \in {0, RATE_LIMIT_WINDOW, JWT_EXPIRY}, s \in 0..MaxSlack}

\* how many seconds may pass between the two clock reads of one expression
MaxSkew == 1

---------------------------------------------------------------------------
(* Configuration (env) *)

ALLOWED_ORIGIN == "https://site"
JWT_SECRET == "k-relay"
ADMIN_PASSWORD == "hunter2"
ADMIN_PASSWORD_SALT == "salt"

Undef == "<undefined>"
Falsy(x) == x \in {Undef, ""}

---------------------------------------------------------------------------
(* Utilities *)

\* String(n) for 0 <= n < 100, as a sequence of decimal digits
String(n) == IF n < 10 THEN <<n>> ELSE <<n \div 10, n % 10>>

RECURSIVE ParseDigits(_, _)
ParseDigits(s, acc) ==
    IF s = <<>> THEN acc ELSE ParseDigits(Tail(s), 10 * acc + Head(s))

\* parseInt(s, 10) of a digit string
ParseInt(s) == ParseDigits(s, 0)

\* PBKDF2-SHA256, 100000 iterations, 256 bits, rendered as hex
PBKDF2(password, salt) == <<"pbkdf2", password, salt>>

ADMIN_PASSWORD_HASH == PBKDF2(ADMIN_PASSWORD, ADMIN_PASSWORD_SALT)

TimingSafeEqualLengthOnly(a, b) == Len(a) = Len(b)

timingSafeEqual(a, b) == a = b

verifyPassword(password, storedHashHex, saltHex) ==
    timingSafeEqual(PBKDF2(password, saltHex), storedHashHex)

---------------------------------------------------------------------------
(* Tokens.  A token is its dot-separated segments: parts is how many there *)
(* are; hdr and pay are the first two (pay: the encoded payload, one       *)
(* position per field), sig the third: whether it decodes as base64, and   *)
(* the tag it decodes to.                                                  *)

JwtHeader == "HS256.JWT"

\* base64url(JSON.stringify(payload))
EncodePayload(p) == <<p.sub, p.iat, p.exp>>

\* JSON.parse(atob(segment))
DecodePayload(seg) == [sub |-> seg[1], iat |-> seg[2], exp |-> seg[3]]

HMAC(key, msg) == <<key, msg>>

SigningInputMissesPayload(hdr, pay) == <<hdr>>

SigningInput(hdr, pay) == <<hdr, pay>>

signJWT(payload, secret) ==
    [parts |-> 3,
     hdr   |-> JwtHeader,
     pay   |-> EncodePayload(payload),
     sig   |-> [b64 |-> TRUE,
                tag |-> HMAC(secret, SigningInput(JwtHeader, EncodePayload(payload)))]]

NoToken ==
    [parts |-> 0, hdr |-> "", pay |-> <<"", 0, 0>>,
     sig |-> [b64 |-> FALSE, tag |-> <<"", <<"", <<"", 0, 0>>>>>>]]

NoAuth == [kind |-> "none", tok |-> NoToken]


\* payload.exp && payload.exp < now()
ExpiredAfterAnHour(payload, t) ==
    payload.exp # 0 /\ payload.iat + RATE_LIMIT_WINDOW < t

Expired(payload, t) == payload.exp # 0 /\ payload.exp < t

\* verifyJWT: "null", "throw" (base64urlToBuffer's atob fails), or "ok"
verifyJWT(auth, t) ==
    IF auth.kind # "bearer" THEN "null"
    ELSE IF auth.tok.parts # 3 THEN "null"
    ELSE IF ~auth.tok.sig.b64 THEN "throw"
    ELSE IF auth.tok.sig.tag #
              HMAC(JWT_SECRET, SigningInput(auth.tok.hdr, auth.tok.pay))
         THEN "null"
    ELSE IF Expired(DecodePayload(auth.tok.pay), t) THEN "null"
    ELSE "ok"

---------------------------------------------------------------------------
(* The rate-limit store (env.RATE_LIMIT): get, and put with expirationTtl. *)

Keys == {"1.1.1.1", "unknown"}

NoEntry == [val |-> <<>>, exp |-> 0]

NoWindow == [since |-> 0, passed |-> 0, denied |-> FALSE]

Alive(k, t) == kv[k].exp > t

\* env.RATE_LIMIT.get(key): the stored string, or null (<<>>)
KvGet(k, t) == IF Alive(k, t) THEN kv[k].val ELSE <<>>


\* env.RATE_LIMIT.put(key, value, {expirationTtl})
KvPut(k, v, ttl, t) == [kv EXCEPT ![k] = [val |-> v, exp |-> t + ttl]]

RateKeyShared(ip) == "unknown"

\* `auth-rate:${ip}` with ip = CF-Connecting-IP || 'unknown'
RateKey(ip) == IF Falsy(ip) THEN "unknown" ELSE ip

\* current ? parseInt(current, 10) : 0
CountOf(current) == IF current = <<>> THEN 0 ELSE ParseInt(current)


DeniedAboveMax(count) == count > RATE_LIMIT_MAX

\* count >= RATE_LIMIT_MAX
Denied(count) == count >= RATE_LIMIT_MAX

\* history: the passes of the counter's current life, capped
MaxPassed == RATE_LIMIT_MAX + 2

WinPut(k, t) ==
    [win EXCEPT ![k] =
        IF Alive(k, t)
        THEN [@ EXCEPT !.passed = IF @ < MaxPassed THEN @ + 1 ELSE @]
        ELSE [@ EXCEPT !.since = t, !.passed = 1]]

---------------------------------------------------------------------------
(* Requests.  A slot holds one request being handled: the request, the     *)
(* handler's locals (count, iat), the response (status, tok), and history  *)
(* of what the handler did (rlRead .. prior, vt, mintAt).                  *)

GalleryFile == "_data/gallery.yml"
ImageDir == "assets/images/gallery/"
ImageNames == {"a.jpg"}
StorePaths == {GalleryFile} \cup ImageNames

\* the images a listing names, each with its sha: none
NoList == [f \in ImageNames |-> Undef]

Methods == {"OPTIONS", "GET", "POST", "PUT"}
Paths == {"/auth", "/images", "/upload", "/delete-image", "/gallery", "/other"}
Origins == {ALLOWED_ORIGIN, "https://evil", ""}

NoBody ==
    [json |-> TRUE, password |-> Undef, filename |-> Undef,
     content |-> Undef, sha |-> Undef]

Idle ==
    [pc |-> "idle", method |-> "", path |-> "", origin |-> "", ip |-> "",
     auth |-> NoAuth, body |-> NoBody,
     count |-> 0, iat |-> 0, sha |-> Undef,
     status |-> 0, tok |-> NoToken, rsha |-> Undef,
     rlRead |-> FALSE, rlWrite |-> FALSE, kvErr |-> FALSE,
     pw |-> FALSE, jv |-> FALSE,
     up |-> 0, gate |-> "none", prior |-> 0, vt |-> 0, mintAt |-> 0,
     list |-> NoList, entries |-> <<>>,
     gst |-> <<>>, applied |-> FALSE, was |-> Undef, obs |-> Undef,
     raced |-> FALSE, page |-> FALSE]

\* json(data, status, origin) / new Response(...): the request is answered
Respond(q, status) == [q EXCEPT !.pc = "done", !.status = status]

OriginAbsentAllowed(origin) == Falsy(origin) \/ origin = ALLOWED_ORIGIN

\* !(!origin || origin !== env.ALLOWED_ORIGIN)
OriginOk(origin) == ~Falsy(origin) /\ origin = ALLOWED_ORIGIN

AfterGateNoFieldCheck(q) ==
    IF ~q.body.json THEN Respond(q, 500)
    ELSE IF ~verifyPassword(q.body.password, ADMIN_PASSWORD_HASH, ADMIN_PASSWORD_SALT)
         THEN Respond([q EXCEPT !.pw = TRUE], 401)
    ELSE [q EXCEPT !.pw = TRUE, !.pc = "iat"]

\* handleAuth, lines 86-95: the body, the password
AfterGate(q) ==
    IF ~q.body.json THEN Respond(q, 500)
    ELSE IF Falsy(q.body.password) THEN Respond(q, 400)
    ELSE IF ~verifyPassword(q.body.password, ADMIN_PASSWORD_HASH, ADMIN_PASSWORD_SALT)
         THEN Respond([q EXCEPT !.pw = TRUE], 401)
    ELSE [q EXCEPT !.pw = TRUE, !.pc = "iat"]

AuthGatePasswordFirst(q) ==
    IF ~rlBound THEN AfterGate(q)
    ELSE IF ~kvUp THEN Respond([q EXCEPT !.rlRead = TRUE, !.kvErr = TRUE], 500)
    ELSE LET k == RateKey(q.ip)
             count == CountOf(KvGet(k, clock))
             q1 == [q EXCEPT !.rlRead = TRUE, !.count = count,
                             !.prior = IF Alive(k, clock) THEN win[k].passed ELSE 0]
             q2 == AfterGate(q1)
         IN  IF q2.pc = "done" /\ q2.status # 401 THEN q2
             ELSE IF Denied(count)
             THEN Respond([q1 EXCEPT !.gate = "deny", !.pw = TRUE], 429)
             ELSE [q1 EXCEPT !.pc = "put"]

\* handleAuth, lines 72-82: the counter is read and compared
AuthGate(q) ==
    IF ~rlBound THEN AfterGate(q)
    ELSE IF ~kvUp THEN Respond([q EXCEPT !.rlRead = TRUE, !.kvErr = TRUE], 500)
    ELSE LET k == RateKey(q.ip)
             count == CountOf(KvGet(k, clock))
             q1 == [q EXCEPT !.rlRead = TRUE, !.count = count,
                             !.prior = IF Alive(k, clock) THEN win[k].passed ELSE 0]
         IN  IF Denied(count)
             THEN Respond([q1 EXCEPT !.gate = "deny"], 429)
             ELSE [q1 EXCEPT !.pc = "put"]

RouteFallsToList(path, method) ==
    CASE path = "/upload" /\ method = "POST" -> "uploadImage"
      [] path = "/delete-image" /\ method = "POST" -> "deleteImage"
      [] path = "/gallery" /\ method = "GET" -> "getGallery"
      [] path = "/gallery" /\ method = "PUT" -> "updateGallery"
      [] OTHER -> "listImages"

\* the five authenticated operations, by (path, method)
Route(path, method) ==
    CASE path = "/images" /\ method = "GET" -> "listImages"
      [] path = "/upload" /\ method = "POST" -> "uploadImage"
      [] path = "/delete-image" /\ method = "POST" -> "deleteImage"
      [] path = "/gallery" /\ method = "GET" -> "getGallery"
      [] path = "/gallery" /\ method = "PUT" -> "updateGallery"
      [] OTHER -> "none"

\* fetch, lines 32-60
Authenticated(q) ==
    LET v  == verifyJWT(q.auth, clock)
        q1 == [q EXCEPT !.jv = TRUE, !.vt = clock]
    IN  IF v = "throw" THEN Respond(q1, 500)
        ELSE IF v = "null" THEN Respond(q1, 401)
        ELSE IF Route(q.path, q.method) = "none" THEN Respond(q1, 404)
        ELSE [q1 EXCEPT !.pc = Route(q.path, q.method)]

\* fetch, lines 11-30
Handle(q) ==
    IF q.method = "OPTIONS" THEN Respond(q, 200)
    ELSE IF ~OriginOk(q.origin) THEN Respond(q, 403)
    ELSE IF q.path = "/auth" /\ q.method = "POST" THEN AuthGate(q)
    ELSE Authenticated(q)

---------------------------------------------------------------------------
(* The remote content store behind github(env, method, path, body): files  *)
(* addressed by path, each guarded by the hash of its content.             *)


Absent == "<absent>"
Contents == {"v1", "v2"}

\* a listing text with a character above U+00FF in it
WideContents == {"w1"}

\* the blob hash of a content
BlobSha(c) ==
    CASE c = "v1" -> "sha-v1"
      [] c = "v2" -> "sha-v2"
      [] OTHER -> "sha-other"

\* the version of a file: its blob hash, or none
ShaOf(path) == IF files[path] = Absent THEN Undef ELSE BlobSha(files[path])

StoreModes == {"ok", "5xx", "html", "neterr"}

\* the status of an answer of a store that fails: 500 with a JSON error
\* body, or 502 with a page that is no JSON
FailStatus == IF ghUp = "5xx" THEN 500 ELSE 502

\* GET contents: [thrown, status, json, sha, content]
GhGet(path) ==
    LET none == [thrown |-> FALSE, status |-> 0, json |-> TRUE,
                 sha |-> Undef, content |-> Undef]
    IN  IF ghUp = "neterr" THEN [none EXCEPT !.thrown = TRUE]
        ELSE IF ghUp = "5xx" THEN [none EXCEPT !.status = FailStatus]
        ELSE IF ghUp = "html" THEN [none EXCEPT !.status = FailStatus, !.json = FALSE]
        ELSE IF files[path] = Absent THEN [none EXCEPT !.status = 404]
        ELSE [none EXCEPT !.status = 200, !.sha = ShaOf(path),
                          !.content = <<"b64", files[path]>>]

\* PUT contents with an optional sha: applied only on a matching hash
GhPutStatus(path, sha) ==
    IF ghUp \in {"5xx", "html"} THEN FailStatus
    ELSE IF files[path] = Absent THEN (IF sha = Undef THEN 201 ELSE 422)
    ELSE IF sha = Undef THEN 422
    ELSE IF sha = BlobSha(files[path]) THEN 200
    ELSE 409

\* DELETE contents with a sha
GhDeleteStatus(path, sha) ==
    IF ghUp \in {"5xx", "html"} THEN FailStatus
    ELSE IF files[path] = Absent THEN 404
    ELSE IF sha = BlobSha(files[path]) THEN 200
    ELSE 409

Ok(status) == status \in 200..299

---------------------------------------------------------------------------
(* Inputs *)

Slots == {1}
RaceSlots == {1, 2}

NoHeld == [tok |-> NoToken, at |-> 0]

Bearer(t) == [kind |-> "bearer", tok |-> t]

\* a token signed by somebody who does not know JWT_SECRET
Forged(t) ==
    signJWT([sub |-> "admin", iat |-> t, exp |-> t + JWT_EXPIRY], "k-attacker")

\* position i of the payload segment changed to c
Tamper(t, i, c) == [t EXCEPT !.pay[i] = c]

TamperSyms(t, i) ==
    CASE i = 1 -> {"root", "admin"} \ {t.pay[1]}
      [] i = 2 -> {t.pay[2] + 1}
      [] i = 3 -> {t.pay[3] + 1, t.pay[3] + JWT_EXPIRY}

Tampered(t) == UNION {{Tamper(t, i, c) : c \in TamperSyms(t, i)} : i \in 1..3}

HeldChoices ==
    IF held.tok = NoToken THEN {}
    ELSE {Bearer(held.tok)} \cup {Bearer(x) : x \in Tampered(held.tok)}

AuthChoices ==
    {NoAuth, [kind |-> "basic", tok |-> NoToken],
     Bearer([Forged(clock) EXCEPT !.parts = 2]),
     Bearer([Forged(clock) EXCEPT !.parts = 4]),
     Bearer([Forged(clock) EXCEPT !.sig.b64 = FALSE]),
     Bearer(Forged(clock))}
    \cup HeldChoices

LoginBodies ==
    {[NoBody EXCEPT !.password = x] : x \in {ADMIN_PASSWORD, "guess", Undef}}
    \cup {[NoBody EXCEPT !.json = FALSE]}

ClientIps == {"1.1.1.1"}

Request(m, p, o, ip, a, b) ==
    [Idle EXCEPT !.method = m, !.path = p, !.origin = o, !.ip = ip,
                 !.auth = a, !.body = b]

---------------------------------------------------------------------------
(* Actions *)

Set(s, q) == req' = [req EXCEPT ![s] = q]

\* history: a denial is remembered for the key
NoteDenial(q) ==
    IF q.status = 429
    THEN [win EXCEPT ![RateKey(q.ip)].denied = TRUE]
    ELSE win

\* a request arrives and is handled up to its first call that waits
FetchOf(s, r) ==
    LET q == Handle(r)
    IN  /\ req[s].pc = "idle"
        /\ Set(s, q)
        /\ win' = NoteDenial(q)
        /\ UNCHANGED <<clock, kv, kvUp, rlBound, clientVars, storeVars>>

\* POST /auth from the admin page
FetchLogin(s) ==
    \E ip \in ClientIps, b \in LoginBodies :
        FetchOf(s, Request("POST", "/auth", ALLOWED_ORIGIN, ip, NoAuth, b))

\* POST /auth from one address or from none (CF-Connecting-IP || 'unknown')
FetchLoginFrom(s) ==
    \E ip \in ClientIps \cup {""}, b \in LoginBodies :
        FetchOf(s, Request("POST", "/auth", ALLOWED_ORIGIN, ip, NoAuth, b))

\* POST /auth from the admin page, with the password
FetchAdmin(s) ==
    \E ip \in ClientIps :
        FetchOf(s, Request("POST", "/auth", ALLOWED_ORIGIN, ip, NoAuth,
                           [NoBody EXCEPT !.password = ADMIN_PASSWORD]))

\* every other (path, method) from the admin page; a body is drawn where the
\* handler reads it
FetchApi(s) ==
    \E m \in Methods \ {"OPTIONS"}, p \in Paths, a \in AuthChoices :
        /\ ~(m = "POST" /\ p = "/auth")
        /\ FetchOf(s, Request(m, p, ALLOWED_ORIGIN, "", a, NoBody))

\* a pre-flight, from anywhere
FetchPreflight(s) ==
    \E p \in Paths, o \in Origins :
        FetchOf(s, Request("OPTIONS", p, o, "", NoAuth, NoBody))

\* requests from elsewhere, with or without the admin's credentials
FetchForeign(s) ==
    \E m \in Methods \ {"OPTIONS"}, p \in Paths,
       o \in Origins \ {ALLOWED_ORIGIN}, ip \in ClientIps,
       a \in {NoAuth} \cup (IF held.tok = NoToken THEN {} ELSE {Bearer(held.tok)}),
       b \in {NoBody, [NoBody EXCEPT !.password = ADMIN_PASSWORD]} :
        FetchOf(s, Request(m, p, o, ip, a, b))

\* handleAuth, line 83 and on
RateLimitPut(s) ==
    LET q == req[s]
        k == RateKey(q.ip)
    IN  /\ q.pc = "put"
        /\ IF ~kvUp
           THEN /\ Set(s, Respond([q EXCEPT !.rlWrite = TRUE, !.kvErr = TRUE], 500))
                /\ UNCHANGED <<kv, win>>
           ELSE /\ kv' = KvPut(k, String(q.count + 1), RATE_LIMIT_WINDOW, clock)
                /\ win' = WinPut(k, clock)
                /\ Set(s, AfterGate([q EXCEPT !.rlWrite = TRUE, !.gate = "pass"]))
        /\ UNCHANGED <<clock, kvUp, rlBound, clientVars, storeVars>>

\* handleAuth, line 98: iat: now()
ReadIat(s) ==
    /\ req[s].pc = "iat"
    /\ Set(s, [req[s] EXCEPT !.iat = clock, !.pc = "sign"])
    /\ UNCHANGED <<clock, relayVars, clientVars, storeVars>>

\* handleAuth, lines 98-99: exp: now() + JWT_EXPIRY, signJWT, the response
IssueToken(s) ==
    LET q == req[s]
        payload == [sub |-> "admin", iat |-> q.iat, exp |-> clock + JWT_EXPIRY]
    IN  /\ q.pc = "sign"
        /\ Set(s, Respond([q EXCEPT !.tok = signJWT(payload, JWT_SECRET),
                                    !.mintAt = clock], 200))
        /\ UNCHANGED <<clock, relayVars, clientVars, storeVars>>

\* the response reaches whoever asked; the slot is free again
Deliver(s) ==
    /\ req[s].pc = "done"
    /\ Set(s, Idle)
    /\ UNCHANGED <<clock, relayVars, clientVars, storeVars>>

\* the admin client's login handler: res.ok && data.token, setToken
Adopt(s) ==
    /\ req[s].pc = "done"
    /\ Ok(req[s].status)
    /\ req[s].tok # NoToken
    /\ held' = [tok |-> req[s].tok, at |-> req[s].mintAt]
    /\ Set(s, Idle)
    /\ UNCHANGED <<clock, relayVars, kept, seen, pageVars, storeVars>>

\* time passes; counters whose time to live is over are gone
Tick(t) ==
    /\ t > clock
    /\ \A s \in DOMAIN req : req[s].pc = "sign" => t <= req[s].iat + MaxSkew
    /\ clock' = t
    /\ kv' = [k \in Keys |-> IF kv[k].exp <= t THEN NoEntry ELSE kv[k]]
    /\ win' = [k \in Keys |->
                 IF kv[k].exp <= t
                 THEN [win[k] EXCEPT !.since = 0, !.passed = 0]
                 ELSE win[k]]
    /\ UNCHANGED <<kvUp, rlBound, clientVars, req, storeVars>>

\* the counting store goes down, or comes back
KvFlip ==
    /\ rlBound
    /\ kvUp' = ~kvUp
    /\ UNCHANGED <<clock, kv, rlBound, win, clientVars, req, storeVars>>

---------------------------------------------------------------------------
(* The five authenticated operations.  Each github() call is one step; a   *)
(* call that cannot reach the store throws, and fetch answers 500.         *)

UploadBodies ==
    {[NoBody EXCEPT !.filename = f, !.content = c] :
        f \in ImageNames \cup {Undef}, c \in Contents \cup {Undef}}
    \cup {[NoBody EXCEPT !.json = FALSE]}

DeleteBodies ==
    {[NoBody EXCEPT !.filename = f, !.sha = h] :
        f \in ImageNames \cup {Undef},
        h \in {BlobSha(c) : c \in Contents} \cup {Undef}}
    \cup {[NoBody EXCEPT !.json = FALSE]}

UpdateBodies ==
    {[NoBody EXCEPT !.content = c, !.sha = h] :
        c \in Contents \cup WideContents \cup {Undef},
        h \in {BlobSha(c) : c \in Contents} \cup {Undef}}
    \cup {[NoBody EXCEPT !.json = FALSE]}

\* what the admin page puts in a body: a file and its content; the listing
\* text and gallerySha
PageBody(s, q, b) ==
    q.page =>
        /\ b.json /\ b.content # Undef
        /\ Route(q.path, q.method) = "uploadImage" => b.filename # Undef
        /\ Route(q.path, q.method) = "updateGallery" => b.sha = seen[s][GalleryFile]

CalledAgainOnFailure(q, status) ==
    IF status \in 200..299
    THEN [q EXCEPT !.up = @ + 1, !.gst = Append(@, status)]
    ELSE [q EXCEPT !.up = @ + 2, !.gst = Append(Append(@, status), status)]

\* one more github() call, and the status it came back with (none if it threw)
Called(q, status) == [q EXCEPT !.up = @ + 1, !.gst = Append(@, status)]

Thrown == 0

\* GET of the images directory: there is one while it holds a file
GhList ==
    IF ghUp = "neterr" THEN [thrown |-> TRUE, status |-> 0, json |-> TRUE]
    ELSE IF ghUp = "5xx" THEN [thrown |-> FALSE, status |-> FailStatus, json |-> TRUE]
    ELSE IF ghUp = "html" THEN [thrown |-> FALSE, status |-> FailStatus, json |-> FALSE]
    ELSE IF \A f \in ImageNames : files[f] = Absent
         THEN [thrown |-> FALSE, status |-> 404, json |-> TRUE]
    ELSE [thrown |-> FALSE, status |-> 200, json |-> TRUE]

\* btoa(content): throws on a character above U+00FF
Btoa(c) == IF c \in WideContents THEN "throw" ELSE <<"b64", c>>

\* atob(data.content)
Atob(b) == b[2]

\* the lines of a listing text
Item(k, v) == [kind |-> "item", key |-> k, value |-> v]
KeyLine(k, v) == [kind |-> "key", key |-> k, value |-> v]
CommentLine == [kind |-> "comment", key |-> "", value |-> ""]
BlankLine == [kind |-> "blank", key |-> "", value |-> ""]

Text(c) ==
    CASE c = "v1" -> <<Item("image", "a.jpg"), KeyLine("caption", "one")>>
      [] c = "v2" -> <<CommentLine, Item("image", "a.jpg"), BlankLine,
                       Item("image", "b.jpg"), KeyLine("category", "x")>>
      [] OTHER -> <<CommentLine>>

NoFields == [k \in {} |-> ""]

\* current[key] = value
WithField(e, k, v) == [x \in DOMAIN e \cup {k} |-> IF x = k THEN v ELSE e[x]]

RECURSIVE ParseLines(_, _, _, _)
ParseLines(lines, entries, current, open) ==
    IF lines = <<>>
    THEN IF open THEN Append(entries, current) ELSE entries
    ELSE LET l == Head(lines)
         IN  IF l.kind \in {"comment", "blank", "other"}
             THEN ParseLines(Tail(lines), entries, current, open)
             ELSE IF l.kind = "dash"
             THEN ParseLines(Tail(lines),
                             IF open THEN Append(entries, current) ELSE entries,
                             NoFields, TRUE)
             ELSE IF l.kind = "item"
             THEN ParseLines(Tail(lines),
                             IF open THEN Append(entries, current) ELSE entries,
                             WithField(NoFields, l.key, l.value), TRUE)
             ELSE IF open
             THEN ParseLines(Tail(lines), entries,
                             WithField(current, l.key, l.value), TRUE)
             ELSE ParseLines(Tail(lines), entries, current, open)

parseSimpleYaml(yaml) == ParseLines(yaml, <<>>, NoFields, FALSE)

\* the file a write or delete request is about
Target(q) ==
    IF Route(q.path, q.method) = "updateGallery" THEN GalleryFile
    ELSE q.body.filename

\* history: a write to path by slot s overtakes whoever has read path and
\* not yet written
Overtaken(s, path) ==
    {t \in DOMAIN req \ {s} :
        req[t].pc \in {"uploadPut", "updatePut"} /\ Target(req[t]) = path}

SetWrite(s, q, path) ==
    req' = [t \in DOMAIN req |->
              IF t = s THEN q
              ELSE IF t \in Overtaken(s, path) THEN [req[t] EXCEPT !.raced = TRUE]
              ELSE req[t]]

NotFoundIsError(status) == FALSE

\* listImages line 175, getGallery line 255: res.status === 404
NotFound(status) == status = 404

\* listImages: 404 and a body that is no array both give the empty list
ListImages(s) ==
    LET g == GhList
        q == Called(req[s], IF g.thrown THEN Thrown ELSE g.status)
    IN  /\ req[s].pc = "listImages"
        /\ Set(s, IF g.thrown THEN Respond(q, 500)
                  ELSE IF NotFound(g.status) THEN Respond(q, 200)
                  ELSE IF ~g.json THEN Respond(q, 500)
                  ELSE IF g.status = 200
                  THEN Respond([q EXCEPT !.list = [f \in ImageNames |-> ShaOf(f)]], 200)
                  ELSE Respond(q, 200))
        /\ UNCHANGED <<clock, relayVars, clientVars, storeVars>>

\* uploadImage, lines 192-205
UploadImage(s) ==
    /\ req[s].pc = "uploadImage"
    /\ \E b \in UploadBodies :
          LET q == [req[s] EXCEPT !.body = b]
          IN  PageBody(s, req[s], b) /\ Set(s,
                IF ~b.json THEN Respond(q, 500)
                ELSE IF Falsy(b.filename) \/ Falsy(b.content) THEN Respond(q, 400)
                ELSE LET g == GhGet(b.filename)
                         q1 == [q EXCEPT !.obs = seen[s][b.filename]]
                     IN  IF g.thrown THEN Respond(Called(q1, Thrown), 500)
                         ELSE [Called(q1, g.status) EXCEPT
                                 !.sha = IF Ok(g.status) THEN g.sha ELSE Undef,
                                 !.pc = "uploadPut"])
    /\ UNCHANGED <<clock, relayVars, clientVars, storeVars>>

\* the PUT of uploadImage and of updateGallery, and the answer
PutStep(s, path, okStatus) ==
    LET st == GhPutStatus(path, IF Falsy(req[s].sha) THEN Undef ELSE req[s].sha)
        q  == [Called(req[s], IF ghUp = "neterr" THEN Thrown ELSE st)
                 EXCEPT !.was = ShaOf(path)]
    IN  IF ghUp = "neterr"
        THEN Set(s, Respond(q, 500)) /\ UNCHANGED files
        ELSE IF Ok(st)
        THEN /\ files' = [files EXCEPT ![path] = q.body.content]
             /\ SetWrite(s, Respond([q EXCEPT !.rsha = BlobSha(q.body.content),
                                              !.applied = TRUE], okStatus),
                         path)
        ELSE Set(s, Respond(q, 500)) /\ UNCHANGED files

\* uploadImage, lines 207-223
UploadPut(s) ==
    /\ req[s].pc = "uploadPut"
    /\ PutStep(s, req[s].body.filename, 201)
    /\ UNCHANGED <<clock, relayVars, clientVars, ghUp>>

\* deleteImage
DeleteImage(s) ==
    /\ req[s].pc = "deleteImage"
    /\ \E b \in DeleteBodies :
          LET q == [req[s] EXCEPT !.body = b]
          IN  IF ~b.json THEN Set(s, Respond(q, 500)) /\ UNCHANGED files
              ELSE IF Falsy(b.filename) \/ Falsy(b.sha)
              THEN Set(s, Respond(q, 400)) /\ UNCHANGED files
              ELSE LET q1 == [q EXCEPT !.obs = seen[s][b.filename]]
                       st == GhDeleteStatus(b.filename, b.sha)
                   IN  IF ghUp = "neterr"
                       THEN Set(s, Respond(Called(q1, Thrown), 500)) /\ UNCHANGED files
                       ELSE IF Ok(st)
                       THEN /\ files' = [files EXCEPT ![b.filename] = Absent]
                            /\ SetWrite(s, Respond([Called(q1, st) EXCEPT
                                                      !.applied = TRUE,
                                                      !.was = ShaOf(b.filename)], 200),
                                        b.filename)
                       ELSE Set(s, Respond(Called(q1, st), 500)) /\ UNCHANGED files
    /\ UNCHANGED <<clock, relayVars, clientVars, ghUp>>

\* getGallery: 404 is the empty listing; any other body without content throws
GetGallery(s) ==
    LET g == GhGet(GalleryFile)
        q == Called(req[s], IF g.thrown THEN Thrown ELSE g.status)
    IN  /\ req[s].pc = "getGallery"
        /\ Set(s, IF g.thrown THEN Respond(q, 500)
                  ELSE IF NotFound(g.status) THEN Respond(q, 200)
                  ELSE IF ~g.json \/ g.content = Undef THEN Respond(q, 500)
                  ELSE Respond([q EXCEPT
                                  !.rsha = g.sha,
                                  !.entries = parseSimpleYaml(Text(Atob(g.content)))],
                               200))
        /\ UNCHANGED <<clock, relayVars, clientVars, storeVars>>

AlwaysRead(sha) == TRUE

\* updateGallery, line 277: if (!currentSha)
NeedsRead(sha) == Falsy(sha)

\* updateGallery, lines 268-283
UpdateGallery(s) ==
    /\ req[s].pc = "updateGallery"
    /\ \E b \in UpdateBodies :
          LET q == [req[s] EXCEPT !.body = b, !.sha = b.sha,
                                  !.obs = seen[s][GalleryFile]]
          IN  PageBody(s, req[s], b) /\ Set(s,
                IF ~b.json THEN Respond(q, 500)
                ELSE IF b.content = Undef THEN Respond(q, 400)
                ELSE IF ~NeedsRead(b.sha) THEN [q EXCEPT !.pc = "updatePut"]
                ELSE LET g == GhGet(GalleryFile)
                     IN  IF g.thrown THEN Respond(Called(q, Thrown), 500)
                         ELSE [Called(q, g.status) EXCEPT
                                 !.sha = IF Ok(g.status) THEN g.sha ELSE b.sha,
                                 !.pc = "updatePut"])
    /\ UNCHANGED <<clock, relayVars, clientVars, storeVars>>

\* updateGallery, lines 285-301
UpdatePut(s) ==
    /\ req[s].pc = "updatePut"
    /\ IF Btoa(req[s].body.content) = "throw"
       THEN /\ Set(s, Respond([req[s] EXCEPT !.was = ShaOf(GalleryFile)], 500))
            /\ UNCHANGED files
       ELSE PutStep(s, GalleryFile, 200)
    /\ UNCHANGED <<clock, relayVars, clientVars, ghUp>>

\* the remote store starts or stops failing, one way or another
GhFlip ==
    /\ \E m \in StoreModes \ {ghUp} : ghUp' = m
    /\ UNCHANGED <<clock, relayVars, clientVars, req, files>>

---------------------------------------------------------------------------
(* The admin page (assets/js/main.js): what it sends and what it keeps.    *)

Clients == RaceSlots

\* authHeaders, apiRequest: what the page asks for, with the stored token
FetchClient(s) ==
    /\ held.tok # NoToken
    /\ \E m \in Methods \ {"OPTIONS"}, p \in Paths :
          /\ Route(p, m) \in {"listImages", "uploadImage", "getGallery", "updateGallery"}
          /\ FetchOf(s, [Request(m, p, ALLOWED_ORIGIN, "", Bearer(held.tok), NoBody)
                            EXCEPT !.page = TRUE])

\* what the page remembers of a response: gallerySha, repoImages
Seen(s, q) ==
    LET op == Route(q.path, q.method)
    IN  IF op = "getGallery"
        THEN [seen[s] EXCEPT ![GalleryFile] = IF Ok(q.status) THEN q.rsha ELSE Undef]
        ELSE IF op = "updateGallery" /\ Ok(q.status)
        THEN [seen[s] EXCEPT ![GalleryFile] = q.rsha]
        ELSE IF op = "listImages"
        THEN [p \in StorePaths |->
                IF p \in ImageNames
                THEN (IF Ok(q.status) THEN q.list[p] ELSE Undef)
                ELSE seen[s][p]]
        ELSE seen[s]

\* apiRequest and its callers: a 401 clears the token; otherwise the answer
\* is taken in
Receive(s) ==
    LET q == req[s]
    IN  /\ q.pc = "done"
        /\ q.jv
        /\ IF q.status = 401
           THEN held' = NoHeld /\ UNCHANGED seen
           ELSE seen' = [seen EXCEPT ![s] = Seen(s, q)] /\ UNCHANGED held
        /\ Set(s, Idle)
        /\ UNCHANGED <<clock, relayVars, kept, pageVars, storeVars>>

\* logout: clearToken
Logout ==
    /\ held.tok # NoToken
    /\ held' = NoHeld
    /\ UNCHANGED <<clock, relayVars, kept, seen, pageVars, req, storeVars>>

\* somebody keeps a copy of the token the page holds
Keep ==
    /\ held.tok # NoToken
    /\ kept # held.tok
    /\ kept' = held.tok
    /\ UNCHANGED <<clock, relayVars, held, seen, pageVars, req, storeVars>>

\* one of the five operations, or any other pair, with the kept token
FetchKept(s) ==
    /\ kept # NoToken
    /\ \E m \in Methods \ {"OPTIONS"}, p \in Paths :
          /\ ~(m = "POST" /\ p = "/auth")
          /\ FetchOf(s, Request(m, p, ALLOWED_ORIGIN, "", Bearer(kept), NoBody))

---------------------------------------------------------------------------
(* The listing codec, character by character: galleryToYaml of the admin   *)
(* page (main.js) and parseSimpleYaml / parseYamlKV of the relay.          *)
(*                                                                         *)
(* A string is a sequence of pieces.  A piece is one character, or a       *)
(* maximal run of word characters (\w) written as one piece: "image",      *)
(* "a".  No string has two word pieces side by side.                       *)

Quote == "\""
Apos == "'"
Backslash == "\\"
Newline == "\n"
Sp == " "

Symbols == {Quote, Apos, Backslash, Newline, Sp, ":", "#", "-", "."}

\* \w
IsWord(c) == c \notin Symbols
\* \s, and what trim() removes
IsSpace(c) == c \in {Sp, Newline}

NoText == <<"<no text>">>
NotParsed == [done |-> FALSE, entries |-> <<>>]

RECURSIVE TrimStart(_)
TrimStart(str) ==
    IF str # <<>> /\ IsSpace(Head(str)) THEN TrimStart(Tail(str)) ELSE str

RECURSIVE TrimEnd(_)
TrimEnd(str) ==
    IF str # <<>> /\ IsSpace(str[Len(str)])
    THEN TrimEnd(SubSeq(str, 1, Len(str) - 1)) ELSE str

\* str.trim()
Trim(str) == TrimEnd(TrimStart(str))

\* str.startsWith(prefix)
StartsWith(str, prefix) ==
    Len(str) >= Len(prefix) /\ SubSeq(str, 1, Len(prefix)) = prefix

\* str.endsWith(c)
EndsWith(str, c) == str # <<>> /\ str[Len(str)] = c

\* str.includes(c)
Includes(str, c) == \E i \in DOMAIN str : str[i] = c

\* str.split('\n')
RECURSIVE Split(_, _)
Split(str, line) ==
    IF str = <<>> THEN <<line>>
    ELSE IF Head(str) = Newline THEN <<line>> \o Split(Tail(str), <<>>)
    ELSE Split(Tail(str), Append(line, Head(str)))

\* strs.join(sep)
RECURSIVE Join(_, _)
Join(strs, sep) ==
    IF strs = <<>> THEN <<>>
    ELSE IF Len(strs) = 1 THEN strs[1]
    ELSE strs[1] \o sep \o Join(Tail(strs), sep)

\* str.replace(/"/g, '\\"')
RECURSIVE EscapeQuotes(_)
EscapeQuotes(str) ==
    IF str = <<>> THEN <<>>
    ELSE (IF Head(str) = Quote THEN <<Backslash, Quote>> ELSE <<Head(str)>>)
         \o EscapeQuotes(Tail(str))

\* e.caption, e.category in a condition: there and not empty
HasText(e, k) == k \in DOMAIN e /\ e[k] # <<>>

\* galleryToYaml, the text of one entry
EntryYaml(e) ==
    <<"-", Sp, "image", ":", Sp, Quote>> \o e.image \o <<Quote>>
    \o (IF HasText(e, "caption")
        THEN <<Newline, Sp, Sp, "caption", ":", Sp, Quote>>
             \o EscapeQuotes(e.caption) \o <<Quote>>
        ELSE <<>>)
    \o (IF HasText(e, "category")
        THEN <<Newline, Sp, Sp, "category", ":", Sp, Quote>>
             \o EscapeQuotes(e.category) \o <<Quote>>
        ELSE <<>>)

galleryToYaml(entries) ==
    IF Len(entries) = 0
    THEN <<"#", Sp, "Gallery", Sp, "is", Sp, "empty", Newline>>
    ELSE Join([i \in DOMAIN entries |-> EntryYaml(entries[i])],
              <<Newline, Newline>>) \o <<Newline>>

NoMatch == [ok |-> FALSE, key |-> "", value |-> <<>>]

\* one layer of surrounding quotes goes
Unquote(value) ==
    IF \/ StartsWith(value, <<Quote>>) /\ EndsWith(value, Quote)
       \/ StartsWith(value, <<Apos>>) /\ EndsWith(value, Apos)
    THEN SubSeq(value, 2, Len(value) - 1)
    ELSE value

\* parseYamlKV: /^(\w+)\s*:\s*(.*)$/
parseYamlKV(str) ==
    IF str = <<>> \/ ~IsWord(Head(str)) THEN NoMatch
    ELSE LET rest == TrimStart(Tail(str))
         IN  IF rest = <<>> \/ Head(rest) # ":" THEN NoMatch
             ELSE [ok |-> TRUE, key |-> Head(str),
                   value |-> Unquote(Trim(Tail(rest)))]

DashLine == [kind |-> "dash", key |-> "", value |-> ""]
OtherLine == [kind |-> "other", key |-> "", value |-> ""]

ClassifyKnownKeys(line) ==
    LET trimmed == Trim(line)
        known(pair) == pair.ok /\ pair.key \in {"image", "caption", "category"}
    IN  IF trimmed = <<>> THEN BlankLine
        ELSE IF StartsWith(trimmed, <<"#">>) THEN CommentLine
        ELSE IF StartsWith(trimmed, <<"-", Sp>>)
        THEN LET pair == parseYamlKV(SubSeq(trimmed, 3, Len(trimmed)))
             IN  IF known(pair) THEN Item(pair.key, pair.value) ELSE DashLine
        ELSE IF Includes(trimmed, ":")
        THEN LET pair == parseYamlKV(trimmed)
             IN  IF known(pair) THEN KeyLine(pair.key, pair.value) ELSE OtherLine
        ELSE OtherLine

\* parseSimpleYaml, lines 315-331: what one line of the text is taken for
Classify(line) ==
    LET trimmed == Trim(line)
    IN  IF trimmed = <<>> THEN BlankLine
        ELSE IF StartsWith(trimmed, <<"#">>) THEN CommentLine
        ELSE IF StartsWith(trimmed, <<"-", Sp>>)
        THEN LET pair == parseYamlKV(SubSeq(trimmed, 3, Len(trimmed)))
             IN  IF pair.ok THEN Item(pair.key, pair.value) ELSE DashLine
        ELSE IF Includes(trimmed, ":")
        THEN LET pair == parseYamlKV(trimmed)
             IN  IF pair.ok THEN KeyLine(pair.key, pair.value) ELSE OtherLine
        ELSE OtherLine

\* parseSimpleYaml of a text
parseYamlText(text) ==
    LET lines == Split(text, <<>>)
    IN  parseSimpleYaml([i \in DOMAIN lines |-> Classify(lines[i])])

MaxEntries == 2
MaxLines == 3

Images == { <<"a", ".", "jpg">>, <<"b", ".", "jpg">> }

\* what the caption and category inputs may hold: nothing, plain text, text
\* with a double quote, in single quotes, with a hash, a colon and a backslash
Captions ==
    { <<>>, <<"a", Sp, "b">>, <<"a", Quote>>, <<Apos, "a", Apos>>,
      <<"#", "a", ":", Sp, Backslash>> }
Categories == { <<"x">> }

\* { image, caption?, category? }; NoText stands for a field that is not there
Entry(image, caption, category) ==
    [k \in {"image"} \cup (IF caption = NoText THEN {} ELSE {"caption"})
                     \cup (IF category = NoText THEN {} ELSE {"category"}) |->
        CASE k = "image" -> image
          [] k = "caption" -> caption
          [] OTHER -> category]

\* the admin page: an image is added to the gallery and its fields are typed
\* (main.js lines 505-509, 570)
AddEntry ==
    /\ listing = NoText
    /\ Len(galleryEntries) < MaxEntries
    /\ \E i \in Images, c \in Captions \cup {NoText}, g \in Categories \cup {NoText} :
          galleryEntries' = Append(galleryEntries, Entry(i, c, g))
    /\ UNCHANGED <<clock, relayVars, held, kept, seen, listing, parsed, ui, theme, req, storeVars>>

\* the admin page: an entry is removed (main.js line 514)
RemoveEntry ==
    /\ listing = NoText
    /\ \E i \in DOMAIN galleryEntries :
          galleryEntries' = SubSeq(galleryEntries, 1, i - 1)
                            \o SubSeq(galleryEntries, i + 1, Len(galleryEntries))
    /\ UNCHANGED <<clock, relayVars, held, kept, seen, listing, parsed, ui, theme, req, storeVars>>

\* the admin page: Publish, const yaml = galleryToYaml(galleryEntries)
Publish ==
    /\ listing = NoText
    /\ listing' = galleryToYaml(galleryEntries)
    /\ parsed' = NotParsed
    /\ UNCHANGED <<clock, relayVars, held, kept, seen, galleryEntries, ui, theme, req, storeVars>>

\* lines a listing file written by hand may hold
LineSamples ==
    { <<>>,
      <<Sp, Sp>>,
      <<"#", Sp, "a">>,
      <<Sp, "#", "-", Sp, "image", ":", Sp, "a">>,
      <<"-", Sp, "image", ":", Sp, "a", ".", "jpg">>,
      <<"-", Sp, "image", ":", Sp, Quote, "b", ".", "jpg", Quote>>,
      <<Sp, "-", Sp, "alt", Sp, ":", Apos, "a", Apos, Sp>>,
      <<"-", Sp, Sp, "image", ":", "a">>,
      <<Sp, Sp, "caption", ":", Sp, Quote, "a", Sp, "b", Quote>>,
      <<Sp, Sp, "category", ":", "x">>,
      <<Sp, Sp, "alt", ":", Sp, "a", ":", "b">>,
      <<Sp, Sp, "a", Sp, "b">> }

\* the listing file is written by hand in the repository
Commit ==
    /\ galleryEntries = <<>> /\ ~parsed.done
    /\ Len(Split(listing, <<>>)) < MaxLines \/ listing = NoText
    /\ \E l \in LineSamples :
          listing' = IF listing = NoText THEN l
                     ELSE listing \o <<Newline>> \o l
    /\ UNCHANGED parsed
    /\ UNCHANGED <<clock, relayVars, held, kept, seen, galleryEntries, ui, theme, req, storeVars>>

\* getGallery, line 263: const entries = parseSimpleYaml(content)
Parse ==
    /\ listing # NoText
    /\ ~parsed.done
    /\ parsed' = [done |-> TRUE, entries |-> parseYamlText(listing)]
    /\ UNCHANGED <<clock, relayVars, held, kept, seen, galleryEntries, listing, ui, theme, req, storeVars>>

---------------------------------------------------------------------------
(* The admin page's session (main.js lines 192-292, 676-682): the two      *)
(* views, the token in sessionStorage, and the requests it has open.  The  *)
(* relay is the environment here: a request may be answered in any way.    *)

\* how many API requests the page may have open at once
MaxOpen == 4

Null == "<null>"

\* what sessionStorage may hold when the page is opened: nothing, a token
\* that is still good, one that has expired or cannot be read
StoredAtLoad == {Null, "good", "stale"}

\* the page before its script has run
PageClosed ==
    [ready |-> FALSE, jwt |-> Null, loginHidden |-> TRUE, panelHidden |-> TRUE,
     errorHidden |-> TRUE, btnDisabled |-> FALSE, logins |-> 0,
     open |-> [t \in StoredAtLoad |-> 0], last |-> "none"]

\* how many API requests are open, whatever token they were sent with
Open(u) == u.open[Null] + u.open["good"] + u.open["stale"]

\* authHeaders, apiRequest: n requests go out with what getToken gives now
Sent(u, n) == [u EXCEPT !.open[u.jwt] = @ + n]

\* how a request sent with token t may end: a request without a token that
\* verifies is refused or lost
Outcomes(t) ==
    IF t = "good" THEN {"ok", "again", "401", "error", "failed"}
    ELSE IF t = "stale" THEN {"401", "error", "failed"}
    ELSE {"401", "failed"}

\* isTokenValid
isTokenValid(u) == u.jwt = "good"

\* setToken, clearToken
setToken(u, token) == [u EXCEPT !.jwt = token]
clearToken(u) == [u EXCEPT !.jwt = Null]

showLoginKeepsPanel(u) == [u EXCEPT !.loginHidden = FALSE, !.errorHidden = TRUE]

\* showLogin
showLogin(u) ==
    [u EXCEPT !.loginHidden = FALSE, !.panelHidden = TRUE, !.errorHidden = TRUE]

\* showPanel, with the two requests of loadGalleryData
showPanel(u) ==
    Sent([u EXCEPT !.loginHidden = TRUE, !.panelHidden = FALSE], 2)

\* the colour schemes the operating system may ask for
Schemes == {"dark", "light"}

\* the theme of the page before its script has run
ThemeClosed ==
    [os |-> Null, stored |-> Null, shown |-> Null, icon |-> Null, last |-> "none"]

\* setTheme (lines 78-85)
setTheme(t, name, persist) ==
    [t EXCEPT !.shown = name,
              !.icon = IF name = "dark" THEN "sun" ELSE "moon",
              !.stored = IF persist THEN name ELSE @]

\* the load of the saved preference, or of the system's (lines 88-93)
ThemeLoad(os, savedTheme) ==
    LET t == [ThemeClosed EXCEPT !.os = os, !.stored = savedTheme, !.last = "load"]
    IN  IF savedTheme # Null THEN setTheme(t, savedTheme, FALSE)
        ELSE setTheme(t, os, FALSE)

FollowsNever(next, systemPref) == FALSE

\* the test of the toggle: the new theme is the system's (line 106)
FollowsSystem(next, systemPref) == next = systemPref

PageFrame ==
    UNCHANGED <<clock, relayVars, held, kept, seen, codecVars, req, storeVars>>

AdminFrame == PageFrame /\ UNCHANGED theme

\* the page is opened, with whatever the session storage holds (lines 676-682)
PageInit ==
    /\ ~ui.ready
    /\ \E t \in StoredAtLoad :
          LET u == [ui EXCEPT !.ready = TRUE, !.jwt = t, !.last = "init"]
          IN  ui' = IF isTokenValid(u) THEN showPanel(u)
                    ELSE showLogin(clearToken(u))
    /\ \E os \in Schemes, savedTheme \in Schemes \cup {Null} :
          theme' = ThemeLoad(os, savedTheme)
    /\ PageFrame

\* the login form is submitted, with a password or without (lines 255-271)
LoginSubmit ==
    /\ ui.ready /\ ~ui.loginHidden /\ ~ui.btnDisabled
    /\ \E typed \in BOOLEAN :
          ui' = IF typed
                THEN [ui EXCEPT !.btnDisabled = TRUE, !.logins = @ + 1,
                                !.errorHidden = TRUE, !.last = "submit"]
                ELSE [ui EXCEPT !.last = "submit"]
    /\ AdminFrame

\* the answer to POST /auth: a token, a refusal, or none (lines 271-287)
LoginResponse ==
    /\ ui.logins > 0
    /\ \E outcome \in {"token", "refused", "failed"} :
          LET u == [ui EXCEPT !.logins = @ - 1, !.btnDisabled = FALSE,
                              !.last = "login"]
          IN  /\ outcome = "token" => Open(u) + 2 <= MaxOpen
              /\ ui' = IF outcome = "token" THEN showPanel(setToken(u, "good"))
                       ELSE [u EXCEPT !.errorHidden = FALSE]
    /\ AdminFrame

\* the logout button (lines 289-292)
LogoutClick ==
    /\ ui.ready /\ ~ui.panelHidden
    /\ ui' = showLogin(clearToken([ui EXCEPT !.last = "logout"]))
    /\ AdminFrame

\* an upload or a publish from the panel: apiRequest sends what getToken gives
ApiCall ==
    /\ ui.ready /\ ~ui.panelHidden
    /\ Open(ui) < MaxOpen
    /\ ui' = Sent([ui EXCEPT !.last = "call"], 1)
    /\ AdminFrame

\* the answer to an API request, or none; after an upload the image list is
\* asked for again (apiRequest lines 220-231, upload handler)
ApiResponse ==
    /\ \E t \in StoredAtLoad :
          /\ ui.open[t] > 0
          /\ \E outcome \in Outcomes(t) :
                LET u == [ui EXCEPT !.open[t] = @ - 1]
                IN  ui' = IF outcome = "401"
                          THEN showLogin(clearToken([u EXCEPT !.last = "401"]))
                          ELSE IF outcome = "again"
                          THEN Sent([u EXCEPT !.last = "answer"], 1)
                          ELSE [u EXCEPT !.last = "answer"]
    /\ AdminFrame

\* the stored token runs out while the page is open
TokenAges ==
    /\ ui.jwt = "good"
    /\ ui' = [ui EXCEPT !.jwt = "stale", !.last = "none"]
    /\ AdminFrame

\* the operating system changes its colour scheme while the page is open
\* (lines 96-100)
OsChange ==
    /\ ui.ready
    /\ \E os \in Schemes \ {theme.os} :
          LET t == [theme EXCEPT !.os = os, !.last = "os"]
          IN  theme' = IF t.stored = Null THEN setTheme(t, os, FALSE) ELSE t
    /\ PageFrame
    /\ UNCHANGED ui

\* a click on the theme toggle (lines 102-114)
ToggleClick ==
    /\ ui.ready
    /\ LET current == theme.shown
           next == IF current = "dark" THEN "light" ELSE "dark"
           systemPref == theme.os
           t == [theme EXCEPT !.last = "toggle"]
       IN  theme' = IF FollowsSystem(next, systemPref)
                    THEN setTheme([t EXCEPT !.stored = Null], next, FALSE)
                    ELSE setTheme(t, next, TRUE)
    /\ PageFrame
    /\ UNCHANGED ui

---------------------------------------------------------------------------
(* Specifications.  The same handlers run in each; they differ in which     *)
(* requests arrive and in what the environment does.                        *)

InitCommon ==
    /\ clock = 0
    /\ kv = [k \in Keys |-> NoEntry]
    /\ kvUp = TRUE
    /\ win = [k \in Keys |-> NoWindow]
    /\ held = NoHeld
    /\ kept = NoToken
    /\ seen = [c \in Clients |-> [p \in StorePaths |-> Undef]]
    /\ files = [p \in StorePaths |-> Absent]
    /\ galleryEntries = <<>>
    /\ listing = NoText
    /\ parsed = NotParsed
    /\ ui = PageClosed
    /\ theme = ThemeClosed

Quiet == \A s \in DOMAIN req : req[s].pc = "idle"

\* time passes between requests only
TickQuiet(t) == Quiet /\ Tick(t)

StoreSteps(s) ==
    \/ ListImages(s)
    \/ UploadImage(s)
    \/ UploadPut(s)
    \/ DeleteImage(s)
    \/ GetGallery(s)
    \/ UpdateGallery(s)
    \/ UpdatePut(s)

\* Spec: the router.  Any request, one at a time, at one instant; the
\* counting store configured or not, up or down; the remote store failing.
Init ==
    /\ InitCommon
    /\ rlBound \in BOOLEAN
    /\ req = [s \in Slots |-> Idle]
    /\ ghUp = "5xx"

Next ==
    \/ \E s \in DOMAIN req : FetchLogin(s)
    \/ \E s \in DOMAIN req : FetchApi(s)
    \/ \E s \in DOMAIN req : FetchPreflight(s)
    \/ \E s \in DOMAIN req : FetchForeign(s)
    \/ \E s \in DOMAIN req : RateLimitPut(s)
    \/ \E s \in DOMAIN req : ReadIat(s)
    \/ \E s \in DOMAIN req : IssueToken(s)
    \/ \E s \in DOMAIN req : Deliver(s)
    \/ \E s \in DOMAIN req : Adopt(s)
    \/ \E s \in DOMAIN req : StoreSteps(s)
    \/ KvFlip

Spec == Init /\ [][Next]_vars

\* SpecToken: the life of a token.  Logins and authenticated requests, one
\* at a time, while time passes at any point; no counting store.
InitToken ==
    /\ InitCommon
    /\ rlBound = FALSE
    /\ req = [s \in Slots |-> Idle]
    /\ ghUp = "5xx"

NextToken ==
    \/ \E s \in DOMAIN req : FetchAdmin(s)
    \/ \E s \in DOMAIN req : FetchApi(s)
    \/ \E s \in DOMAIN req : ReadIat(s)
    \/ \E s \in DOMAIN req : IssueToken(s)
    \/ \E s \in DOMAIN req : Deliver(s)
    \/ \E s \in DOMAIN req : Adopt(s)
    \/ \E s \in DOMAIN req : StoreSteps(s)
    \/ \E t \in Instants : Tick(t)

SpecToken == InitToken /\ [][NextToken]_vars

\* SpecSeq: login attempts one after the other, each made at one instant,
\* against a working counting store.
InitSeq ==
    /\ InitCommon
    /\ rlBound = TRUE
    /\ req = [s \in Slots |-> Idle]
    /\ ghUp = "5xx"

NextSeq ==
    \/ \E s \in DOMAIN req : FetchLogin(s)
    \/ \E s \in DOMAIN req : RateLimitPut(s)
    \/ \E s \in DOMAIN req : ReadIat(s)
    \/ \E s \in DOMAIN req : IssueToken(s)
    \/ \E s \in DOMAIN req : Deliver(s)
    \/ \E t \in Instants : TickQuiet(t)

SpecSeq == InitSeq /\ [][NextSeq]_vars

\* SpecRate: login attempts that overlap, at one instant.
InitRate ==
    /\ InitCommon
    /\ rlBound = TRUE
    /\ req = [s \in RaceSlots |-> Idle]
    /\ ghUp = "5xx"

NextRate ==
    \/ \E s \in DOMAIN req : FetchLogin(s)
    \/ \E s \in DOMAIN req : RateLimitPut(s)
    \/ \E s \in DOMAIN req : ReadIat(s)
    \/ \E s \in DOMAIN req : IssueToken(s)
    \/ \E s \in DOMAIN req : Deliver(s)

SpecRate == InitRate /\ [][NextRate]_vars

\* what the page's requests lead to
PageSteps(s) ==
    \/ ListImages(s)
    \/ UploadImage(s)
    \/ UploadPut(s)
    \/ GetGallery(s)
    \/ UpdateGallery(s)
    \/ UpdatePut(s)

\* the page holds a token it was handed at time 0
Held0 ==
    [tok |-> signJWT([sub |-> "admin", iat |-> 0, exp |-> JWT_EXPIRY], JWT_SECRET),
     at |-> 0]

\* SpecStore: the remote store through the relay, one request at a time,
\* from the admin page or from anybody, while the store works or fails.
InitStore ==
    /\ InitCommon
    /\ rlBound = FALSE
    /\ req = [s \in Slots |-> Idle]
    /\ ghUp = "ok"

NextStore ==
    \/ \E s \in DOMAIN req : FetchAdmin(s)
    \/ \E s \in DOMAIN req : ReadIat(s)
    \/ \E s \in DOMAIN req : IssueToken(s)
    \/ \E s \in DOMAIN req : Adopt(s)
    \/ \E s \in DOMAIN req : FetchClient(s)
    \/ \E s \in DOMAIN req : FetchApi(s)
    \/ \E s \in DOMAIN req : StoreSteps(s)
    \/ \E s \in DOMAIN req : Receive(s)
    \/ GhFlip

SpecStore == InitStore /\ [][NextStore]_vars

\* SpecShare: two admin pages, logged in, working on a store that answers,
\* their requests overlapping in any way.
InitShare ==
    /\ clock = 0
    /\ kv = [k \in Keys |-> NoEntry]
    /\ kvUp = TRUE
    /\ win = [k \in Keys |-> NoWindow]
    /\ rlBound = FALSE
    /\ held = Held0
    /\ kept = NoToken
    /\ seen = [c \in Clients |-> [p \in StorePaths |-> Undef]]
    /\ files = [p \in StorePaths |-> Absent]
    /\ galleryEntries = <<>>
    /\ listing = NoText
    /\ parsed = NotParsed
    /\ ui = PageClosed
    /\ theme = ThemeClosed
    /\ req = [s \in RaceSlots |-> Idle]
    /\ ghUp = "ok"

NextShare ==
    \/ \E s \in DOMAIN req : FetchClient(s)
    \/ \E s \in DOMAIN req : PageSteps(s)
    \/ \E s \in DOMAIN req : Receive(s)

SpecShare == InitShare /\ [][NextShare]_vars

\* SpecSession: the life of a token next to everything else the relay does
\* for logins: attempts that fail, attempts that are denied, new logins,
\* logouts, while time passes between the requests.
InitSession ==
    /\ InitCommon
    /\ rlBound = TRUE
    /\ req = [s \in Slots |-> Idle]
    /\ ghUp = "5xx"

NextSession ==
    \/ \E s \in DOMAIN req : FetchLogin(s)
    \/ \E s \in DOMAIN req : RateLimitPut(s)
    \/ \E s \in DOMAIN req : ReadIat(s)
    \/ \E s \in DOMAIN req : IssueToken(s)
    \/ \E s \in DOMAIN req : Deliver(s)
    \/ \E s \in DOMAIN req : Adopt(s)
    \/ \E s \in DOMAIN req : FetchKept(s)
    \/ \E s \in DOMAIN req : StoreSteps(s)
    \/ \E t \in Instants : TickQuiet(t)
    \/ Keep
    \/ Logout

SpecSession == InitSession /\ [][NextSession]_vars

\* SpecFrame: requests of every kind, from two client identities and from
\* elsewhere, one at a time, with the counting store configured.
InitFrame ==
    /\ clock = 0
    /\ kv = [k \in Keys |-> NoEntry]
    /\ kvUp = TRUE
    /\ win = [k \in Keys |-> NoWindow]
    /\ rlBound = TRUE
    /\ held = Held0
    /\ kept = NoToken
    /\ seen = [c \in Clients |-> [p \in StorePaths |-> Undef]]
    /\ files = [p \in StorePaths |-> Absent]
    /\ galleryEntries = <<>>
    /\ listing = NoText
    /\ parsed = NotParsed
    /\ ui = PageClosed
    /\ theme = ThemeClosed
    /\ req = [s \in Slots |-> Idle]
    /\ ghUp = "5xx"

NextFrame ==
    \/ \E s \in DOMAIN req : FetchLoginFrom(s)
    \/ \E s \in DOMAIN req : FetchApi(s)
    \/ \E s \in DOMAIN req : FetchPreflight(s)
    \/ \E s \in DOMAIN req : FetchForeign(s)
    \/ \E s \in DOMAIN req : RateLimitPut(s)
    \/ \E s \in DOMAIN req : ReadIat(s)
    \/ \E s \in DOMAIN req : IssueToken(s)
    \/ \E s \in DOMAIN req : Deliver(s)
    \/ \E s \in DOMAIN req : StoreSteps(s)

SpecFrame == InitFrame /\ [][NextFrame]_vars

\* SpecAdmin: the admin page's session.
InitAdmin ==
    /\ InitCommon
    /\ rlBound = FALSE
    /\ req = [s \in Slots |-> Idle]
    /\ ghUp = "ok"

NextAdmin ==
    \/ PageInit
    \/ LoginSubmit
    \/ LoginResponse
    \/ LogoutClick
    \/ ApiCall
    \/ ApiResponse
    \/ TokenAges
    \/ OsChange
    \/ ToggleClick

SpecAdmin == InitAdmin /\ [][NextAdmin]_vars

\* SpecCodec: the listing codec.  The admin page edits its entries and
\* publishes them once, or the file is written by hand line by line, and the
\* relay parses the text.
InitCodec ==
    /\ InitCommon
    /\ rlBound = FALSE
    /\ req = [s \in Slots |-> Idle]
    /\ ghUp = "ok"

NextCodec ==
    \/ AddEntry
    \/ RemoveEntry
    \/ Publish
    \/ Commit
    \/ Parse

SpecCodec == InitCodec /\ [][NextCodec]_vars

---------------------------------------------------------------------------
(* Claims *)

InFlight == {s \in DOMAIN req : req[s].pc # "idle"}
Done == {s \in DOMAIN req : req[s].pc = "done"}

IsLogin(q) == q.path = "/auth" /\ q.method = "POST"
FromElsewhere(q) == q.origin # ALLOWED_ORIGIN

\* nothing behind the origin check was touched
Untouched(q) ==
    /\ ~q.rlRead /\ ~q.rlWrite /\ ~q.pw /\ ~q.jv
    /\ q.up = 0 /\ q.tok = NoToken /\ q.gate = "none"

\* C1 as stated: every request whose Origin is absent or not the allow-listed
\* one is answered 403, with no rate-limit access, no password or token
\* verification and no store call.
CE_C1 ==
    \A s \in InFlight :
        FromElsewhere(req[s]) =>
            req[s].pc = "done" /\ req[s].status = 403 /\ Untouched(req[s])

\* C1, amended: every request other than a pre-flight (OPTIONS) whose Origin is
\* absent or not the allow-listed one is answered 403; a pre-flight is answered
\* 200 whatever its origin; neither touches the rate-limit counter, verifies a
\* password or a token, or calls the store.
Thm_C1 ==
    \A s \in InFlight :
        FromElsewhere(req[s]) =>
            /\ req[s].pc = "done"
            /\ req[s].status = IF req[s].method = "OPTIONS" THEN 200 ELSE 403
            /\ Untouched(req[s])

\* a request from elsewhere carrying the admin's token was answered 403
Wit_C1 ==
    \E s \in Done :
        /\ FromElsewhere(req[s]) /\ req[s].status = 403
        /\ req[s].auth.kind = "bearer" /\ req[s].auth.tok = held.tok
        /\ verifyJWT(req[s].auth, clock) = "ok"

WellSigned(t) ==
    t.parts = 3 /\ t.sig.b64 /\ t.sig.tag = <<JWT_SECRET, <<t.hdr, t.pay>>>>

\* the bearer token is missing, malformed, wrongly signed or expired at t
BadToken(a, t) ==
    \/ a.kind # "bearer"
    \/ ~WellSigned(a.tok)
    \/ a.tok.pay[3] <= t

\* C2: from the allow-listed origin, any operation other than POST /auth with a
\* missing, malformed, wrongly signed or expired token is answered 401, and no
\* store call is made.
CE_C2 ==
    \A s \in InFlight :
        ( /\ ~FromElsewhere(req[s]) /\ req[s].method # "OPTIONS"
          /\ ~IsLogin(req[s])
          /\ BadToken(req[s].auth, req[s].vt) )
        => req[s].pc = "done" /\ req[s].status = 401 /\ req[s].up = 0


\* the window of key k, 3600 seconds from its first allowed attempt, is over
WindowElapsed(k) == clock >= win[k].since + RATE_LIMIT_WINDOW

\* C3: for sequential POST /auth attempts of one client identity, an attempt
\* that finds fewer than 5 earlier passes in the window passes the rate-limit
\* gate, the 6th attempt within the window is answered 429 whatever its
\* password, and an attempt made after the window has elapsed passes again.
CE_C3 ==
    \A s \in InFlight :
        (IsLogin(req[s]) /\ ~FromElsewhere(req[s])) =>
            LET k == RateKey(req[s].ip) IN
            /\ req[s].prior < RATE_LIMIT_MAX =>
                  /\ req[s].status # 429
                  /\ req[s].pc = "put" \/ req[s].gate = "pass"
            /\ (req[s].prior >= RATE_LIMIT_MAX /\ ~WindowElapsed(k)) =>
                  req[s].pc = "done" /\ req[s].status = 429
            /\ WindowElapsed(k) => req[s].status # 429

\* C4: under any interleaving of concurrent POST /auth requests of one client
\* identity within one window, at most 5 + 1 requests pass the gate.
CE_C4 ==
    \A k \in Keys : win[k].passed <= RATE_LIMIT_MAX + 1

\* C5: when the counting store is not configured, or its get or put fails
\* during POST /auth, the request proceeds to password verification and is
\* answered 200, 401 or 400.
CE_C5 ==
    \A s \in Done :
        ( /\ IsLogin(req[s]) /\ ~FromElsewhere(req[s]) /\ req[s].body.json
          /\ ~rlBound \/ req[s].kvErr )
        => req[s].status \in {200, 400, 401}

\* C6: the window is fixed: an attempt made 3600 seconds or more after the
\* first allowed attempt of the window is never denied.
CE_C6 ==
    \A s \in InFlight :
        req[s].gate = "deny" => ~WindowElapsed(RateKey(req[s].ip))

\* C7: the step that answers a login attempt 429 leaves the counter's value and
\* expiry unchanged, verifies no password, writes nothing and issues no token.
Thm_C7 ==
    [][ \A s \in DOMAIN req :
          (req[s].pc = "idle" /\ req'[s].status = 429) =>
              /\ kv' = kv
              /\ req'[s].pc = "done"
              /\ Denied(req'[s].count)
              /\ ~req'[s].pw /\ ~req'[s].rlWrite
              /\ req'[s].tok = NoToken ]_vars

\* an attempt with the right password was answered 429
Wit_C7 ==
    \E s \in Done :
        /\ req[s].status = 429 /\ req[s].gate = "deny"
        /\ req[s].body.password = ADMIN_PASSWORD
        /\ Alive(RateKey(req[s].ip), clock)

\* the issue time a token carries
IssuedAt(t) == DecodePayload(t.pay).iat

\* C8: a token issued at T is accepted by verification at T+1 and rejected at
\* T+7201 under the same secret.
CE_C8 ==
    \A s \in InFlight :
        (req[s].jv /\ held.tok # NoToken /\ req[s].auth = Bearer(held.tok)) =>
            /\ req[s].vt = IssuedAt(held.tok) + 1 => req[s].status # 401
            /\ req[s].vt = IssuedAt(held.tok) + JWT_EXPIRY + 1 =>
                  req[s].pc = "done" /\ req[s].status = 401

\* C9: a correctly signed token whose exp is less than or equal to the current
\* time is refused, also at the instant now = exp.
CE_C9 ==
    \A s \in InFlight :
        ( /\ req[s].jv /\ req[s].auth.kind = "bearer"
          /\ WellSigned(req[s].auth.tok)
          /\ req[s].auth.tok.pay[3] <= req[s].vt )
        => req[s].pc = "done" /\ req[s].status = 401

\* C10: an issued token with any field of its payload segment changed, header
\* and signature kept, never verifies, and a request carrying it gets 401 and
\* reaches no operation.
Thm_C10 ==
    /\ held.tok # NoToken =>
          \A x \in Tampered(held.tok), t \in Instants :
              verifyJWT(Bearer(x), t) = "null"
    /\ \A s \in InFlight :
          ( /\ held.tok # NoToken /\ req[s].jv
            /\ req[s].auth.kind = "bearer"
            /\ req[s].auth.tok \in Tampered(held.tok) )
          => req[s].pc = "done" /\ req[s].status = 401 /\ req[s].up = 0

\* the issued token, its expiry pushed back, was presented before that new
\* expiry and refused
Wit_C10 ==
    \E s \in Done :
        /\ held.tok # NoToken
        /\ req[s].auth.kind = "bearer"
        /\ req[s].auth.tok \in Tampered(held.tok)
        /\ req[s].auth.tok.pay[3] > held.tok.pay[3]
        /\ req[s].vt < req[s].auth.tok.pay[3]
        /\ req[s].status = 401

\* the request in slot s carries the kept copy of an issued token
WithKept(s) ==
    /\ kept # NoToken /\ req[s].jv
    /\ req[s].auth = Bearer(kept)

\* the relay took the token of the request in slot s and went on to the
\* operation asked for (or to 404 where there is none)
Accepted(s) ==
    /\ req[s].status # 401
    /\ (req[s].pc = "done" /\ req[s].up = 0) =>
          \/ req[s].status = 404 /\ Route(req[s].path, req[s].method) = "none"
          \/ req[s].status \in {400, 500} /\ Route(req[s].path, req[s].method) # "none"

\* C11: an issued token is accepted on every non-auth operation at every time
\* before its expiry, whatever happened since it was issued (other logins,
\* failed or denied attempts, a logout of the page): nothing revokes it.
Thm_C11 ==
    \A s \in InFlight :
        (WithKept(s) /\ req[s].vt < DecodePayload(kept.pay).exp) => Accepted(s)

\* after a denied attempt and a logout, and more than an hour after its
\* issue, the copy of the token still opened an operation
Wit_C11 ==
    \E s \in InFlight :
        /\ WithKept(s) /\ Accepted(s)
        /\ held.tok = NoToken
        /\ \E k \in Keys : win[k].denied
        /\ req[s].vt > IssuedAt(kept) + RATE_LIMIT_WINDOW
        /\ req[s].vt < DecodePayload(kept.pay).exp
        /\ req[s].up > 0

\* C12: every token POST /auth hands out has exp = iat + 7200 exactly,
\* however the clock behaves while the request is handled.
CE_C12 ==
    \A s \in Done :
        req[s].tok # NoToken =>
            DecodePayload(req[s].tok.pay).exp
                = DecodePayload(req[s].tok.pay).iat + JWT_EXPIRY

\* C13: a token is minted only as the last step of a POST /auth from the
\* allow-listed origin that first passed the rate-limit gate and then the
\* password verification; a wrong password gets 401 and no token; nothing
\* else ever returns a token.
Thm_C13 ==
    \A s \in InFlight :
        /\ req[s].tok # NoToken =>
              /\ req[s].pc = "done" /\ req[s].status = 200
              /\ IsLogin(req[s]) /\ ~FromElsewhere(req[s])
              /\ req[s].pw /\ req[s].body.password = ADMIN_PASSWORD
              /\ rlBound => req[s].rlRead /\ req[s].rlWrite /\ req[s].gate = "pass"
        /\ req[s].pw =>
              /\ IsLogin(req[s]) /\ ~FromElsewhere(req[s])
              /\ rlBound => req[s].gate = "pass"
        /\ (req[s].pw /\ req[s].body.password # ADMIN_PASSWORD) =>
              /\ req[s].pc = "done" /\ req[s].status = 401
              /\ req[s].tok = NoToken
        /\ (req[s].status = 200 /\ req[s].tok = NoToken) => ~IsLogin(req[s])

\* with the limiter configured, a login passed the gate and the password
\* check and was handed a token
Wit_C13 ==
    \E s \in Done :
        /\ rlBound /\ req[s].gate = "pass" /\ req[s].pw
        /\ req[s].status = 200 /\ req[s].tok # NoToken
        /\ verifyJWT(Bearer(req[s].tok), clock) = "ok"

\* an answer that reports an error
ErrorStatus(status) == status \in 400..599

\* C14: a PUT /gallery that supplies a sha, or a POST /delete-image, whose
\* sha differs from the store's current hash of the file is answered with an
\* error, and the stored files are left as they were.
Thm_C14 ==
    [][ \A s \in DOMAIN req :
          /\ ( /\ req[s].pc = "updatePut" /\ req'[s].pc # "updatePut"
               /\ ~Falsy(req[s].body.sha)
               /\ req[s].body.sha # ShaOf(GalleryFile) )
             => /\ req'[s].pc = "done" /\ ErrorStatus(req'[s].status)
                /\ files' = files
          /\ ( /\ req[s].pc = "deleteImage" /\ req'[s].pc # "deleteImage"
               /\ ~Falsy(req'[s].body.filename) /\ ~Falsy(req'[s].body.sha)
               /\ req'[s].body.sha # ShaOf(req'[s].body.filename) )
             => /\ req'[s].pc = "done" /\ ErrorStatus(req'[s].status)
                /\ files' = files ]_vars

\* a PUT /gallery with the sha of an earlier version met a newer one in the
\* store, was refused there and answered with an error
Wit_C14 ==
    \E s \in Done :
        /\ Route(req[s].path, req[s].method) = "updateGallery"
        /\ ~Falsy(req[s].body.sha)
        /\ files[GalleryFile] # Absent
        /\ req[s].body.sha # ShaOf(GalleryFile)
        /\ req[s].gst = <<409>>
        /\ ErrorStatus(req[s].status) /\ ~req[s].applied

\* C15: across any interleaving of the requests of two clients, a write that
\* is applied (PUT /gallery, POST /upload) replaces the version its client
\* last saw, absent included: never a version the client has not seen.
CE_C15 ==
    \A s \in Done :
        ( /\ req[s].applied
          /\ Route(req[s].path, req[s].method) \in {"updateGallery", "uploadImage"} )
        => req[s].was = req[s].obs

\* the request in slot s is a write that came without a sha, and the relay's
\* own read found the file
ReadItself(s) ==
    /\ Route(req[s].path, req[s].method) \in {"uploadImage", "updateGallery"}
    /\ req[s].pc \in {"uploadPut", "updatePut", "done"}
    /\ Falsy(req[s].body.sha)
    /\ Len(req[s].gst) >= 1 /\ req[s].gst[1] = 200

\* C16: when a write omits the sha and the file exists, the relay reads the
\* current sha and supplies it, so that, with no other writer between the read
\* and the write, the write is applied and not refused as a conflict.
CE_C16 ==
    \A s \in InFlight :
        (ReadItself(s) /\ ~req[s].raced) =>
            /\ req[s].pc # "done" => req[s].sha = ShaOf(Target(req[s]))
            /\ req[s].pc = "done" =>
                  /\ req[s].gst = <<200, 200>>
                  /\ req[s].applied /\ Ok(req[s].status)

\* the request in slot s carries the token the page was handed
WithHeld(s) == held.tok # NoToken /\ req[s].auth = Bearer(held.tok)

\* no call to the store failed while the request in slot s was handled
StoreAnswered(s) == \A i \in DOMAIN req[s].gst : Ok(req[s].gst[i])

\* C17: end to end, with no other writer: POST /auth with the password gives
\* 200 and a token; GET /gallery with it gives 200, the entries and the sha;
\* PUT /gallery with a new content and that sha gives 200 and the new sha, and
\* the listing a following GET decodes is that of the new content.
CE_C17 ==
    \A s \in Done :
        /\ ( /\ IsLogin(req[s]) /\ ~FromElsewhere(req[s])
             /\ req[s].body.json /\ req[s].body.password = ADMIN_PASSWORD )
           => /\ req[s].status = 200
              /\ verifyJWT(Bearer(req[s].tok), clock) = "ok"
        /\ ( /\ WithHeld(s) /\ Route(req[s].path, req[s].method) = "getGallery"
             /\ req[s].gst = <<200>> )
           => /\ req[s].status = 200
              /\ req[s].rsha = ShaOf(GalleryFile)
              /\ req[s].entries = parseSimpleYaml(Text(files[GalleryFile]))
        /\ ( /\ WithHeld(s) /\ Route(req[s].path, req[s].method) = "updateGallery"
             /\ req[s].body.json /\ req[s].body.content # Undef
             /\ ~Falsy(req[s].body.sha) /\ req[s].body.sha = req[s].was
             /\ StoreAnswered(s) )
           => /\ req[s].status = 200
              /\ req[s].rsha = BlobSha(req[s].body.content)
              /\ files[GalleryFile] = req[s].body.content
              /\ req[s].rsha = ShaOf(GalleryFile)

StoreRoutes == {"listImages", "uploadImage", "deleteImage", "getGallery", "updateGallery"}

\* the i-th store call of request q was a read
IsRead(q, i) ==
    /\ i = 1
    /\ \/ Route(q.path, q.method) \in {"listImages", "getGallery", "uploadImage"}
       \/ Route(q.path, q.method) = "updateGallery" /\ Falsy(q.body.sha)

\* the i-th store call of request q failed with something other than a
\* not-found on a read
UpstreamFailed(q, i) ==
    /\ ~Ok(q.gst[i])
    /\ ~(q.gst[i] = 404 /\ IsRead(q, i))

\* C18: for the five authenticated operations, a store call that fails with
\* anything other than not-found on a read (network error, conflict, 5xx)
\* makes the relay answer 500.
CE_C18 ==
    \A s \in Done :
        ( /\ Route(req[s].path, req[s].method) \in StoreRoutes
          /\ \E i \in DOMAIN req[s].gst : UpstreamFailed(req[s], i) )
        => req[s].status = 500

\* the request in slot s is the given operation and its one store call, a
\* read, was answered not-found
ReadNotFound(s, route) ==
    /\ Route(req[s].path, req[s].method) = route
    /\ req[s].gst = <<404>>

\* C19: a not-found answer of the store on a read is no error: GET /images on
\* a directory that does not exist answers 200 with the empty list, GET
\* /gallery on an absent listing file answers 200 with no entries and no sha.
Thm_C19 ==
    \A s \in Done :
        /\ ReadNotFound(s, "listImages") =>
              req[s].status = 200 /\ req[s].list = NoList
        /\ ReadNotFound(s, "getGallery") =>
              req[s].status = 200 /\ req[s].entries = <<>> /\ req[s].rsha = Undef

Wit_C19 ==
    \E s \in Done :
        /\ ReadNotFound(s, "getGallery")
        /\ files[GalleryFile] = Absent
        /\ \E f \in ImageNames : files[f] # Absent
        /\ req[s].status = 200 /\ req[s].entries = <<>> /\ req[s].rsha = Undef

\* the six operations, as the interface lists them
Operations ==
    { <<"/auth", "POST">>, <<"/images", "GET">>, <<"/upload", "POST">>,
      <<"/delete-image", "POST">>, <<"/gallery", "GET">>, <<"/gallery", "PUT">> }

\* a request from the allow-listed origin, no pre-flight, for no operation
Unmatched(q) ==
    /\ ~FromElsewhere(q) /\ q.method # "OPTIONS"
    /\ <<q.path, q.method>> \notin Operations

\* C20 as stated: every request from the allow-listed origin whose (path,
\* method) pair is none of the six operations, and no pre-flight, is answered
\* 404.
CE_C20 ==
    \A s \in InFlight :
        Unmatched(req[s]) => req[s].pc = "done" /\ req[s].status = 404

\* C20, amended: such a request is answered 404, without a store call, when it
\* carries a valid unexpired token.
Thm_C20 ==
    \A s \in InFlight :
        (Unmatched(req[s]) /\ ~BadToken(req[s].auth, req[s].vt)) =>
            req[s].pc = "done" /\ req[s].status = 404 /\ req[s].up = 0

Wit_C20 ==
    \E s \in Done :
        /\ Unmatched(req[s]) /\ ~BadToken(req[s].auth, req[s].vt)
        /\ req[s].path = "/gallery" /\ req[s].method = "POST"
        /\ req[s].status = 404

\* the relay has parsed the text that the page made of its present entries
RoundTrip == parsed.done /\ listing = galleryToYaml(galleryEntries)

\* every field the entry has holds some text
NoEmptyField(e) == \A k \in DOMAIN e : e[k] # <<>>

\* C21: for every sequence of gallery entries whose string fields hold no
\* newline (with or without double quotes, caption and category there or
\* not, the empty sequence too), decoding the encoded text gives the same
\* sequence back, in the same order.
CE_C21 ==
    (RoundTrip /\ \A i \in DOMAIN galleryEntries : NoEmptyField(galleryEntries[i]))
        => parsed.entries = galleryEntries

\* the lines of the text the relay parsed, without the space around them
TextLines == LET lines == Split(listing, <<>>)
             IN  [i \in DOMAIN lines |-> Trim(lines[i])]

\* a line that starts an item: dash and space
StartsItem(line) == StartsWith(line, <<"-", Sp>>)

\* the item lines among lines i and on, in order of appearance
RECURSIVE ItemLinesFrom(_, _)
ItemLinesFrom(lines, i) ==
    IF i > Len(lines) THEN <<>>
    ELSE (IF StartsItem(lines[i]) THEN <<i>> ELSE <<>>) \o ItemLinesFrom(lines, i + 1)

\* the `key: value` pair a line holds, if it holds one
PairOf(line) ==
    parseYamlKV(IF StartsItem(line) THEN SubSeq(line, 3, Len(line)) ELSE line)

Last(S) == CHOOSE i \in S : \A x \in S : x <= i

\* C25: decoding gives one record per line that starts with dash and space,
\* in order of appearance; every `key: value` line of an item, whatever its
\* key, is a field of that item's record; blank lines, lines starting with #
\* and key lines before the first item add nothing.
Thm_C25 ==
    parsed.done =>
        LET lines == TextLines
            items == ItemLinesFrom(lines, 1)
            pairs == [i \in DOMAIN lines |-> PairOf(lines[i])]
            \* the lines of the j-th item: its dash line to the next one
            span(j) == items[j] .. (IF j < Len(items) THEN items[j + 1] - 1
                                    ELSE Len(lines))
            giving(j, k) == {i \in span(j) : pairs[i].ok /\ pairs[i].key = k}
        IN  /\ Len(parsed.entries) = Len(items)
            /\ \A j \in DOMAIN items :
                  /\ DOMAIN parsed.entries[j] =
                        {pairs[i].key : i \in {x \in span(j) : pairs[x].ok}}
                  /\ \A k \in DOMAIN parsed.entries[j] :
                        parsed.entries[j][k] = pairs[Last(giving(j, k))].value

Wit_C25 ==
    /\ parsed.done /\ galleryEntries = <<>>
    /\ Len(TextLines) = 3 /\ Len(ItemLinesFrom(TextLines, 1)) = 2
    /\ Len(parsed.entries) = 2
    /\ DOMAIN parsed.entries[1] = {"image", "alt"}
    /\ parsed.entries[1].alt = <<"a", ":", "b">>
    /\ parsed.entries[2] = [image |-> <<"b", ".", "jpg">>]

\* how many store calls the operation of request q may make: its read, if it
\* has one, and its write or delete, if it has one
CallsAllowed(q) ==
    (IF IsRead(q, 1) THEN 1 ELSE 0)
    + (IF Route(q.path, q.method) \in {"uploadImage", "deleteImage", "updateGallery"}
       THEN 1 ELSE 0)

\* the last store call of request q was its write or delete
Mutated(q) == q.gst # <<>> /\ ~IsRead(q, Len(q.gst))

\* C22: nothing is retried: a request makes each of its store calls at most
\* once (at most one write or delete), one call per step; after its write or
\* delete, failed or not, comes the response; and once answered the request
\* does nothing more.
Thm_C22 ==
    [][ \A s \in DOMAIN req :
          /\ req'[s].pc # "idle" =>
                /\ req'[s].up = Len(req'[s].gst)
                /\ Len(req'[s].gst) <= CallsAllowed(req'[s])
                /\ Len(req'[s].gst) <= Len(req[s].gst) + 1
                /\ Mutated(req'[s]) => req'[s].pc = "done"
          /\ req[s].pc = "done" => req'[s] \in {req[s], Idle}
          /\ (req[s].pc \notin {"idle", "done"} /\ req'[s] # req[s]) =>
                /\ req'[s].pc # "idle"
                /\ SubSeq(req'[s].gst, 1, Len(req[s].gst)) = req[s].gst ]_vars

Wit_C22 ==
    \E s \in Done :
        /\ Route(req[s].path, req[s].method) = "updateGallery"
        /\ Len(req[s].gst) = 2 /\ Ok(req[s].gst[1]) /\ ~Ok(req[s].gst[2])
        /\ req[s].up = 2 /\ req[s].status = 500
        /\ files[GalleryFile] # req[s].body.content

\* the body of request q was read as JSON and lacks a field its operation needs
LacksField(q) ==
    /\ q.body.json
    /\ \/ IsLogin(q) /\ q.body.password = Undef
       \/ /\ Route(q.path, q.method) = "uploadImage"
          /\ q.body.filename = Undef \/ q.body.content = Undef
       \/ /\ Route(q.path, q.method) = "deleteImage"
          /\ q.body.filename = Undef \/ q.body.sha = Undef
       \/ /\ Route(q.path, q.method) = "updateGallery"
          /\ q.body.content = Undef

\* request q got as far as its handler's reading of the body: right origin,
\* and the gate passed (POST /auth) or the token accepted (the others)
Admitted(q) ==
    /\ ~FromElsewhere(q) /\ q.method # "OPTIONS"
    /\ IF IsLogin(q) THEN ~q.kvErr /\ q.gate # "deny"
       ELSE ~BadToken(q.auth, q.vt)

Chained(s) ==
    /\ Route(req[s].path, req[s].method) = "updateGallery"
    /\ req[s].page /\ ~Falsy(req[s].body.sha)
    /\ req[s].body.sha = req[s].obs /\ req[s].body.sha = req[s].was
    /\ StoreAnswered(s)

\* C24: the sha a successful PUT /gallery returns is the store's hash of the
\* listing file after that write, so that, with no other writer between, a
\* further PUT /gallery sent with that sha is applied and not refused as stale.
CE_C24 ==
    \A s \in Done :
        /\ (Route(req[s].path, req[s].method) = "updateGallery" /\ req[s].status = 200)
              => req[s].rsha = ShaOf(GalleryFile)
        /\ Chained(s) => req[s].applied /\ req[s].status = 200

\* the counter values the relay may store
CounterValues == {String(n) : n \in 1..RATE_LIMIT_MAX}

\* C26: in every reachable state, under any interleaving of concurrent POST
\* /auth requests, the counter stored for a client identity is absent or an
\* integer from 1 to 5, and no request is about to write more than 5.
Thm_C26 ==
    /\ \A k \in Keys : kv[k] = NoEntry \/ kv[k].val \in CounterValues
    /\ \A s \in InFlight : req[s].pc = "put" => req[s].count + 1 <= RATE_LIMIT_MAX

Wit_C26 ==
    /\ \E k \in Keys : kv[k].val = String(RATE_LIMIT_MAX) /\ win[k].passed > RATE_LIMIT_MAX
    /\ \A s \in DOMAIN req :
          req[s].rlWrite /\ req[s].count = RATE_LIMIT_MAX - 1

\* the step is one of a POST /auth from the allow-listed origin, made by
\* client identity k, in slot s
AuthStepOf(s, k) ==
    /\ req'[s] # req[s]
    /\ IsLogin(req'[s]) /\ ~FromElsewhere(req'[s])
    /\ k = (IF req'[s].ip = "" THEN "unknown" ELSE req'[s].ip)

\* C27: the counters are per client identity and touched by /auth only: a
\* step that changes the counter or the expiry of identity k is a step of a
\* POST /auth of identity k from the allow-listed origin; requests for any
\* other route, pre-flights and requests from elsewhere change no counter.
Thm_C27 ==
    [][ \A k \in Keys :
          kv'[k] # kv[k] => \E s \in DOMAIN req : AuthStepOf(s, k) ]_vars

Wit_C27 ==
    /\ \A k \in Keys : kv[k] # NoEntry
    /\ kv["unknown"].val # kv["1.1.1.1"].val
    /\ \E s \in Done : FromElsewhere(req[s]) /\ IsLogin(req[s]) /\ req[s].status = 403

\* C28: every POST /auth that passes the rate-limit gate uses up one attempt,
\* whatever becomes of it, so that the counter of an identity is the number of
\* attempts that passed in its window; and a good password resets nothing: an
\* attempt that comes after five passes in the window is answered 429.
CE_C28 ==
    /\ \A k \in Keys :
          Alive(k, clock) => CountOf(KvGet(k, clock)) = win[k].passed
    /\ \A s \in InFlight :
          (IsLogin(req[s]) /\ ~FromElsewhere(req[s]) /\ req[s].rlRead
             /\ req[s].prior >= RATE_LIMIT_MAX)
          => req[s].pc = "done" /\ req[s].status = 429 /\ req[s].tok = NoToken

\* C29: in the admin page, once it is initialised, whatever logins, logouts
\* and answers follow one another (answers to requests still open at a logout
\* or a new login too): while the panel is shown a token is stored; and every
\* 401 answer to an API request and every logout leaves no token stored and
\* the login view shown.
Thm_C29 ==
    ui.ready =>
        /\ ~ui.panelHidden => ui.jwt # Null
        /\ ui.last \in {"401", "logout"} =>
              ui.jwt = Null /\ ~ui.loginHidden /\ ui.panelHidden

\* a 401 has come in while three more requests, sent with a token, are open
Wit_C29 ==
    /\ ui.ready /\ ui.last = "401"
    /\ ui.jwt = Null /\ ~ui.loginHidden /\ ui.panelHidden
    /\ ui.open["good"] = MaxOpen - 1 /\ ui.logins = 0

\* C30: once the page is loaded, whatever toggle clicks and changes of the
\* system's colour scheme follow: with no override stored the theme shown is
\* the system's; with an override stored the theme shown is the override;
\* and right after a toggle click an override is stored exactly when the
\* new theme differs from the system's.
Thm_C30 ==
    ui.ready =>
        /\ theme.stored = Null => theme.shown = theme.os
        /\ theme.stored # Null => theme.shown = theme.stored
        /\ theme.last = "toggle" => (theme.stored # Null <=> theme.shown # theme.os)

\* a click has brought the theme back to the system's dark scheme and
\* dropped the override that was stored
Wit_C30 ==
    /\ ui.ready /\ theme.last = "toggle"
    /\ theme.stored = Null /\ theme.shown = "dark" /\ theme.os = "dark"

====
